---- MODULE Spec2Model ----
(***************************************************************************)
(* Bulk loader of datasets into a Dataverse repository.                    *)
(*   BulkLoad_Python.py : create_dataset, delete_all_files_in_dataset,     *)
(*                        upload_zip_file, process_dataset_folder, main    *)
(*   remote_loader.py   : download_to_temp, process_remote_folder_url,     *)
(*                        process_google_drive_folder,                     *)
(*                        process_onedrive_share, main                     *)
(* The repository, the HTTP transport and the file system are the          *)
(* environment: every answer they can give is a nondeterministic choice.   *)
(***************************************************************************)
EXTENDS Integers, Sequences, FiniteSets, TLC

\* ---------------------------------------------------------------- bounds
\* Longest listing (manifest entries, directory entries, cloud children).
MaxUnits == 2
\* Most file descriptors that list_files returns for one dataset.
MaxFiles == 1
\* Most times the program is started on the same datasets folder.
MaxRuns == 2
\* Most file descriptors in a listing when delete_all_files_in_dataset is run alone.
MaxListed == 3

VARIABLES
    cfg,        \* the command line: program, tokens, shape of the root locator
    tree,       \* the datasets folder on disk: what each name in it is
    run,        \* how many times the program has been started on that folder
    sources,    \* the local files that locators name and that exist on disk
    pauses,     \* the units after whose last step time.sleep was called
    json_links, \* the .json links of the folder page fetched last (line 141)
    pc,         \* control point of the single flow of control
    status,     \* "running", "done", or how the run ended
    abortAt,    \* where an uncaught exception left the run: "none", "select", "listing", "unit"
    provider,   \* the listing provider the entry point dispatched to
    network,    \* TRUE once any HTTP request or repository call has been issued
    content,    \* what the root locator held when main read it ("none" before)
    items,      \* the parsed listing: [isList, n] (manifest, cloud children)
    entries,    \* BulkLoad_Python main: the sorted directory entries (folder names)
    links,      \* process_remote_folder_url: the deduplicated root links
    folders,    \* process_remote_folder_url: folder_links
    pairs,      \* process_remote_folder_url: root_jsons still to pair in the flat branch
    i,          \* index of the current element of the listing (0 before the first)
    unit,       \* number of dataset units started so far
    cur,        \* locals of the unit being processed
    temps,      \* temporary files that exist on disk
    nhandle,    \* number of datasets the repository has created
    calls,      \* RepositoryClient calls issued, in order
    outcomes,   \* one record per finished unit
    reports,    \* failure lines printed by create_dataset
    submitted   \* a helper run alone: doc, its input, and payload, the payload sent

vars == <<cfg, tree, run, sources, pauses, json_links, pc, status, abortAt, provider, network, content, items, entries, links,
          folders, pairs, i, unit, cur, temps, nhandle, calls, outcomes,
          reports, submitted>>

\* ------------------------------------------------------- metadata documents
\* A metadata document is a JSON object.  top: its top-level keys other than
\* "datasetVersion"; dv: whether "datasetVersion" is absent, a mapping, or a
\* value that is not a mapping; dvKeys: the keys of that mapping.
FieldNames == {"files", "dataFiles", "metadataBlocks"}

FileFields == {"files", "dataFiles"}

Documents ==
    { d \in [top : SUBSET FieldNames, dv : {"absent", "scalar", "dict"},
             dvKeys : SUBSET FieldNames] :
        d.dv # "dict" => d.dvKeys = {} }

NoDocument == [top |-> {}, dv |-> "none", dvKeys |-> {}]

\* BulkLoad_Python.py 32-37: keep only the datasetVersion wrapper when present.
dataset_json(metadata) ==
    IF metadata.dv # "absent"
    THEN [top |-> {}, dv |-> metadata.dv, dvKeys |-> metadata.dvKeys]
    ELSE metadata

\* BulkLoad_Python.py 43-50: pop files/dataFiles from the datasetVersion mapping.
strip_files(payload) ==
    IF payload.dv = "dict"
    THEN [payload EXCEPT !.dvKeys = @ \ FileFields]
    ELSE payload

\* The payload create_dataset hands to api.create_dataset (line 52).
create_payload(metadata) == strip_files(dataset_json(metadata))

HasFileField(d) == (d.top \cup d.dvKeys) \cap FileFields # {}

\* ------------------------------------------------------------------ links
\* An absolute URL found on an index page: the stem of its last path segment
\* and how it ends (".json", ".zip", or "/" for a directory-style link).
Link(stem, ext) == [stem |-> stem, ext |-> ext]

NoLink == Link("", "")

\* root_url itself, when the root page is treated as its own single folder.
RootLink == Link("root", "dir")

\* The spec's flat example, and a page with directory-style links: one of them
\* twice, and one that urljoin (line 100) resolves to root_url itself.
FlatBase == <<Link("a", "json"), Link("a", "zip"), Link("b", "json"), Link("c", "zip")>>

DirBase == <<Link("d1", "dir"), Link("a", "json"), RootLink, Link("d1", "dir")>>

\* The elements of s at the indices in S, in order.
Pick(s, S) ==
    LET F[k \in 0..Len(s)] ==
            IF k = 0 THEN <<>>
            ELSE IF k \in S THEN Append(F[k - 1], s[k]) ELSE F[k - 1]
    IN  F[Len(s)]

SubSeqs(s) == { Pick(s, S) : S \in SUBSET (DOMAIN s) }

\* The pages an index URL may serve.
Listings == SubSeqs(FlatBase) \cup SubSeqs(DirBase)

\* remote_loader.py 121-122: deduplicate, keeping the first occurrence.
dedupe(ls) == Pick(ls, { k \in DOMAIN ls : \A j \in 1..(k - 1) : ls[j] # ls[k] })

WithExt(ls, ext) == Pick(ls, { k \in DOMAIN ls : ls[k].ext = ext })

\* remote_loader.py 125: links ending with "/".
dir_links(ls) == WithExt(ls, "dir")

\* remote_loader.py 126-130.
folder_links(ls) == IF dir_links(ls) # <<>> THEN dir_links(ls) ELSE <<RootLink>>

First(ls) == IF ls = <<>> THEN NoLink ELSE ls[1]

\* remote_loader.py 154-160: the first root zip whose stem equals the json's.
stem_match(j, ls) ==
    First(Pick(ls, { k \in DOMAIN ls : ls[k].ext = "zip" /\ ls[k].stem = j.stem }))

\* ------------------------------------------------------------ directories
Names == 1..MaxUnits

\* What iterdir() may yield: the entries of the datasets folder in any order.
RawListings ==
    { s \in UNION { [1..n -> Names] : n \in 0..MaxUnits } :
        \A a, b \in DOMAIN s : a # b => s[a] # s[b] }

Range(s) == { s[k] : k \in DOMAIN s }

\* What a name in the datasets folder can be: nothing, a plain file, or a
\* directory that may hold a .uploaded_* marker, a *.json and a *.zip.
NoEntry == [kind |-> "absent", marker |-> FALSE, json |-> FALSE, zip |-> FALSE]

FolderKinds ==
    { f \in [kind : {"absent", "file", "dir"}, marker : BOOLEAN, json : BOOLEAN,
             zip : BOOLEAN] :
        f.kind # "dir" => ~(f.marker \/ f.json \/ f.zip) }

Trees == [Names -> FolderKinds]

NoTree == [n \in Names |-> NoEntry]

\* The orders in which iterdir() may yield the names present in tree t.
iterdir(t) == { s \in RawListings : Range(s) = { n \in Names : t[n].kind # "absent" } }

\* Faulty variant of sorted: the entries are taken in the order iterdir() yields them.
sorted_unsorted(s) == s

\* BulkLoad_Python.py 229: sorted(datasets_path.iterdir()).
sorted(s) ==
    LET F[k \in 0..MaxUnits] ==
            IF k = 0 THEN <<>>
            ELSE IF k \in Range(s) THEN Append(F[k - 1], k) ELSE F[k - 1]
    IN  F[MaxUnits]

\* ------------------------------------------------------------ the command line
Configs ==
    { c \in [program : {"BulkLoad_Python", "remote_loader"},
             api_token : BOOLEAN, onedrive_token : BOOLEAN, gdrive_token : BOOLEAN,
             http : BOOLEAN, onedrive : BOOLEAN, gdrive : BOOLEAN] :
        c.program = "BulkLoad_Python" =>
            ~(c.onedrive_token \/ c.gdrive_token \/ c.http \/ c.onedrive \/ c.gdrive) }

\* Runs in which every provider token is supplied and only URLs carry a
\* provider pattern, and at most one: what happens after dispatch does not
\* read the rest.
RunConfigs ==
    { c \in Configs :
        /\ c.program = "remote_loader" => (c.onedrive_token /\ c.gdrive_token)
        /\ (c.onedrive \/ c.gdrive) => c.http
        /\ ~(c.onedrive /\ c.gdrive) }

NoItems == [isList |-> TRUE, n |-> 0]

\* The locals of one unit's processing.
NewCur(key, inline, murl, furl, marker, meta, file) ==
    [key |-> key, metadata |-> inline, metadata_url |-> murl, file_url |-> furl,
     marker |-> marker, meta |-> meta, file |-> file,
     pid |-> 0, mtemp |-> 0, ftemp |-> 0, msrc |-> 0, fsrc |-> 0, res |-> "Pending"]

Idle == NewCur(0, FALSE, FALSE, FALSE, FALSE, NoLink, NoLink)

\* The local file that the locator behind temporary file t names, when that
\* locator is a path to a file that exists.
Source(t) == 0 - t

SourcePaths == { Source(t) : t \in 1..(2 * MaxUnits) }

InitWith(c, p, doc) ==
    /\ cfg = c
    /\ tree \in (IF c.program = "BulkLoad_Python" /\ p = "main" THEN Trees ELSE {NoTree})
    /\ run = 1
    /\ pauses = {}
    /\ json_links = <<>>
    /\ sources = SourcePaths
    /\ pc = p
    /\ status = "running"
    /\ abortAt = "none"
    /\ provider = "none"
    /\ network = FALSE
    /\ content = "none"
    /\ items = NoItems
    /\ entries = <<>>
    /\ links = <<>>
    /\ folders = <<>>
    /\ pairs = <<>>
    /\ i = 0
    /\ unit = 0
    /\ cur = Idle
    /\ temps = {}
    /\ nhandle = 0
    /\ calls = <<>>
    /\ outcomes = <<>>
    /\ reports = <<>>
    /\ submitted = [doc |-> doc, payload |-> NoDocument]

Init == \E c \in RunConfigs : InitWith(c, "main", NoDocument)

InitSelect == \E c \in Configs : InitWith(c, "main", NoDocument)

\* ------------------------------------------------- the environment's answers
\* api.create_dataset: 201, another status, or an exception.
CreateAnswers == {"created", "rejected", "error"}

\* api.upload_datafile: 200/201, another status, or an exception.
UploadAnswers == {"uploaded", "rejected", "error"}

\* requests.get + streaming in download_to_temp (lines 58-76).
HttpAnswers == {"fetched", "http_error", "stream_error"}

\* the local-path branch of download_to_temp (lines 77-87).
PathAnswers == {"copied", "missing", "copy_error"}

\* api.get_datafiles_metadata and the deletes that follow: ok = FALSE is a
\* status other than 200 or an exception; has[k] says whether item k carries
\* item["dataFile"]["id"]; del[k] whether its delete answers 200/204.
ListAnswersUpTo(m) ==
    { a \in UNION { [ok : BOOLEAN, has : [1..n -> BOOLEAN], del : [1..n -> BOOLEAN]] :
                    n \in 0..m } :
        /\ ~a.ok => Len(a.has) = 0
        /\ \A k \in DOMAIN a.has : ~a.has[k] => a.del[k] }

\* In a whole run every listed descriptor carries its file id; what becomes
\* of one that does not is the same in every run of the helper.
ListAnswers == { a \in ListAnswersUpTo(MaxFiles) : \A k \in DOMAIN a.has : a.has[k] }

\* The repository's identifier of the k-th file of dataset h.
FileId(h, k) == (h - 1) * MaxFiles + k

\* --------------------------------------------------- BulkLoad_Python helpers
Call(op, h, arg, ok) ==
    [op |-> op, unit |-> unit, key |-> cur.key, h |-> h, arg |-> arg, ok |-> ok]

\* create_dataset, lines 52-66: the persistent id on 201, None (0) otherwise;
\* every failure prints one line.  The call is logged with the id it returned.
create_dataset(ans) ==
    [pid |-> IF ans = "created" THEN nhandle + 1 ELSE 0,
     nhandle |-> IF ans = "created" THEN nhandle + 1 ELSE nhandle,
     calls |-> Append(calls, Call("create_dataset",
                                  IF ans = "created" THEN nhandle + 1 ELSE 0,
                                  0, ans = "created")),
     reports |-> IF ans = "created" THEN reports
                 ELSE Append(reports, [unit |-> unit, kind |-> "CreateRejected"])]

\* Faulty variant of delete_all_files_in_dataset: the loop ends at the first
\* delete that fails.
delete_all_files_in_dataset_stops(log, h, ans) ==
    LET listed == Append(log, Call("list_files", h, 0, ans.ok))
        D[k \in 0..Len(ans.has)] ==
            IF k = 0 THEN listed
            ELSE IF ans.has[k] /\ (\A j \in 1..(k - 1) : ans.del[j])
                 THEN Append(D[k - 1], Call("delete_file", 0, FileId(h, k), ans.del[k]))
                 ELSE D[k - 1]
    IN  D[Len(ans.has)]

\* delete_all_files_in_dataset, lines 68-108: list, then one delete per item
\* that carries a file id; a failed delete is printed and the loop goes on.
delete_all_files_in_dataset(log, h, ans) ==
    LET listed == Append(log, Call("list_files", h, 0, ans.ok))
        D[k \in 0..Len(ans.has)] ==
            IF k = 0 THEN listed
            ELSE IF ans.has[k]
                 THEN Append(D[k - 1], Call("delete_file", 0, FileId(h, k), ans.del[k]))
                 ELSE D[k - 1]
    IN  D[Len(ans.has)]

\* Faulty variant of upload_zip_file: the response status is not looked at.
upload_zip_file_unreported(log, h, zip_path, ans) ==
    [ok |-> TRUE,
     calls |-> Append(log, Call("upload_file", h, zip_path, ans = "uploaded"))]

\* upload_zip_file, lines 110-140: True on 200/201, False otherwise; never raises.
upload_zip_file(log, h, zip_path, ans) ==
    [ok |-> ans = "uploaded",
     calls |-> Append(log, Call("upload_file", h, zip_path, ans = "uploaded"))]

\* ---------------------------------------------------------- download_to_temp
\* The temporary files of unit u: one for its metadata, one for its file.
MetaTemp(u) == 2 * u - 1

FileTemp(u) == 2 * u

\* Faulty variant of download_to_temp: a local path is handed back as it is.
download_to_temp_shared(ans, t) ==
    CASE ans = "fetched" ->
            [path |-> t, src |-> 0, temps |-> temps \cup {t}, network |-> TRUE]
      [] ans = "http_error" ->
            [path |-> 0, src |-> 0, temps |-> temps, network |-> TRUE]
      [] ans = "stream_error" ->
            [path |-> 0, src |-> 0, temps |-> temps, network |-> TRUE]
      [] ans = "copied" ->
            [path |-> Source(t), src |-> Source(t), temps |-> temps, network |-> network]
      [] OTHER ->
            [path |-> 0, src |-> 0, temps |-> temps, network |-> network]

\* remote_loader.py 49-87, creating temporary file t.  path = 0: the call raised.
\* src: the local file that was copied, 0 when the locator is a URL.
download_to_temp(ans, t) ==
    CASE ans = "fetched" ->
            [path |-> t, src |-> 0, temps |-> temps \cup {t}, network |-> TRUE]
      [] ans = "http_error" ->
            [path |-> 0, src |-> 0, temps |-> temps, network |-> TRUE]
      [] ans = "stream_error" ->
            [path |-> 0, src |-> 0, temps |-> (temps \cup {t}) \ {t}, network |-> TRUE]
      [] ans = "copied" ->
            [path |-> t, src |-> Source(t), temps |-> temps \cup {t}, network |-> network]
      [] ans = "missing" ->
            [path |-> 0, src |-> 0, temps |-> temps, network |-> network]
      [] ans = "copy_error" ->
            [path |-> 0, src |-> 0, temps |-> temps \cup {t}, network |-> network]

\* os.remove(tmp) for each of the given paths that is not None; ts are the
\* files of one kind that exist.
remove(ts, paths) == ts \ (paths \ {0})

\* ----------------------------------------------------- the stages of a unit
UnitStep(p, c, cl, tp, nh, rp, net) ==
    /\ pc' = p
    /\ cur' = c
    /\ calls' = cl
    /\ temps' = tp
    /\ nhandle' = nh
    /\ reports' = rp
    /\ network' = net
    /\ UNCHANGED <<cfg, pauses, json_links, tree, run, sources, content, status, abortAt, provider, items, entries, links, folders,
                   pairs, i, unit, outcomes, submitted>>

\* A new unit starts with locals c at control point p, at element j.
StartUnit(p, j, c) ==
    /\ pc' = p
    /\ i' = j
    /\ unit' = unit + 1
    /\ cur' = c
    /\ UNCHANGED <<cfg, pauses, json_links, tree, run, sources, content, status, abortAt, provider, network, items, entries, links,
                   folders, pairs, temps, nhandle, calls, outcomes, reports,
                   submitted>>

\* The element j yields no unit and a line says why; the loop goes on at p.
SkipWith(p, j, kind) ==
    /\ pc' = p
    /\ i' = j
    /\ reports' = Append(reports, [unit |-> 0, kind |-> kind])
    /\ UNCHANGED <<cfg, pauses, json_links, tree, run, sources, content, status, abortAt, provider, network, items, entries,
                   links, folders, pairs, unit, cur, temps, nhandle, calls,
                   outcomes, submitted>>

\* The element j yields no unit; the loop goes on at p.
SkipTo(p, j) ==
    /\ pc' = p
    /\ i' = j
    /\ UNCHANGED <<cfg, pauses, json_links, tree, run, sources, content, status, abortAt, provider, network, items, entries, links,
                   folders, pairs, unit, cur, temps, nhandle, calls,
                   outcomes, reports, submitted>>

Outcome(c) ==
    [unit |-> unit, key |-> c.key, meta |-> c.meta, file |-> c.file,
     pid |-> c.pid, res |-> c.res]

\* The unit ends with result res, the paths in gone removed, after
\* time.sleep when slept; the loop goes on at p.
EndUnitWith(p, res, gone, slept) ==
    /\ pc' = p
    /\ outcomes' = Append(outcomes, Outcome([cur EXCEPT !.res = res]))
    /\ cur' = Idle
    /\ temps' = remove(temps, gone)
    /\ sources' = remove(sources, gone)
    /\ pauses' = IF slept THEN pauses \cup {unit} ELSE pauses
    /\ UNCHANGED <<cfg, json_links, tree, run, content, status, abortAt, provider, network, items,
                   entries, links, folders, pairs, i, unit, nhandle, calls, reports,
                   submitted>>

\* The unit ends on a path that has no time.sleep.
EndUnit(p, res, gone) == EndUnitWith(p, res, gone, FALSE)

\* An exception leaves the unit's processing uncaught: the process dies.
Propagate(gone) ==
    /\ pc' = "exit"
    /\ status' = "crashed"
    /\ abortAt' = "unit"
    /\ outcomes' = Append(outcomes, Outcome(cur))
    /\ cur' = Idle
    /\ temps' = remove(temps, gone)
    /\ sources' = remove(sources, gone)
    /\ UNCHANGED <<cfg, pauses, json_links, tree, run, content, provider, network, items, entries, links,
                   folders, pairs, i, unit, nhandle, calls, reports, submitted>>

\* The run ends, in main or in a provider's listing step.
Leave(st, where, net, held) ==
    /\ pc' = "exit"
    /\ status' = st
    /\ abortAt' = where
    /\ network' = net
    /\ content' = held
    /\ UNCHANGED <<cfg, pauses, json_links, tree, run, sources, provider, items, entries, links, folders, pairs, i, unit,
                   cur, temps, nhandle, calls, outcomes, reports, submitted>>

Exit(st, where, net) == Leave(st, where, net, content)

\* Fetch the unit's metadata document into a temporary file and parse it.
MetadataStage(okPc, failPc, answers) ==
    \E d \in answers, parses \in BOOLEAN :
        LET r == download_to_temp(d, MetaTemp(unit)) IN
        /\ r.path = 0 => parses
        /\ IF r.path # 0 /\ parses
           THEN UnitStep(okPc, [cur EXCEPT !.mtemp = r.path, !.msrc = r.src], calls,
                         r.temps, nhandle, reports, r.network)
           ELSE UnitStep(failPc,
                         [cur EXCEPT !.mtemp = r.path, !.msrc = r.src,
                                     !.res = "MetadataUnavailable"],
                         calls, r.temps, nhandle, reports, r.network)

\* pid = create_dataset(metadata, alias); if not pid: ...
CreateStage(okPc, failPc) ==
    \E ans \in CreateAnswers :
        LET r == create_dataset(ans) IN
        UnitStep(IF r.pid = 0 THEN failPc ELSE okPc,
                 [cur EXCEPT !.pid = r.pid,
                             !.res = IF r.pid = 0 THEN "CreateRejected" ELSE @],
                 r.calls, temps, r.nhandle, r.reports, TRUE)

\* Faulty variant of ClearStage: the unit loses its dataset when the listing
\* fails.
ClearStage_gives_up(nextPc) ==
    \E ans \in ListAnswers :
        UnitStep(nextPc, [cur EXCEPT !.pid = IF ans.ok THEN @ ELSE 0],
                 delete_all_files_in_dataset(calls, cur.pid, ans),
                 temps, nhandle, reports, TRUE)

\* delete_all_files_in_dataset(pid); its result does not stop the unit.
ClearStage(nextPc) ==
    \E ans \in ListAnswers :
        UnitStep(nextPc, cur, delete_all_files_in_dataset(calls, cur.pid, ans),
                 temps, nhandle, reports, TRUE)

\* Download the unit's file into a temporary file and upload it.
UploadStage(nextPc, failPc, answers) ==
    \E d \in answers, up \in UploadAnswers :
        LET r == download_to_temp(d, FileTemp(unit))
            u == upload_zip_file(calls, cur.pid, r.path, up)
        IN
        /\ r.path = 0 => up = "uploaded"
        /\ IF r.path = 0
           THEN UnitStep(failPc, [cur EXCEPT !.res = "FileUnavailable"], calls,
                         r.temps, nhandle, reports, r.network)
           ELSE UnitStep(nextPc,
                         [cur EXCEPT !.ftemp = r.path, !.fsrc = r.src,
                                     !.res = IF u.ok THEN "Uploaded" ELSE "UploadFailed"],
                         u.calls, r.temps, nhandle, reports, TRUE)

NoFile(nextPc) ==
    UnitStep(nextPc, [cur EXCEPT !.res = "NoFileProvided"], calls, temps,
             nhandle, reports, network)

Goto(p, c) == UnitStep(p, c, calls, temps, nhandle, reports, network)

\* Fetch the unit's file into a temporary file (no upload yet).
FetchStage(okPc, failPc, answers) ==
    \E d \in answers :
        LET r == download_to_temp(d, FileTemp(unit)) IN
        IF r.path = 0
        THEN UnitStep(failPc, [cur EXCEPT !.res = "FileUnavailable"], calls,
                      r.temps, nhandle, reports, r.network)
        ELSE UnitStep(okPc, [cur EXCEPT !.ftemp = r.path, !.fsrc = r.src], calls,
                      r.temps, nhandle, reports, r.network)

\* upload_zip_file on a file that is already on disk.
UploadOnly(nextPc, zip_path) ==
    \E up \in UploadAnswers :
        LET u == upload_zip_file(calls, cur.pid, zip_path, up) IN
        UnitStep(nextPc,
                 [cur EXCEPT !.res = IF u.ok THEN "Uploaded" ELSE "UploadFailed"],
                 u.calls, temps, nhandle, reports, TRUE)

\* main hands the run to a provider.
Enter(prov, p, its, net, held) ==
    /\ pc' = p
    /\ provider' = prov
    /\ items' = its
    /\ network' = net
    /\ content' = held
    /\ UNCHANGED <<cfg, pauses, json_links, tree, run, sources, status, abortAt, entries, links, folders, pairs, i, unit,
                   cur, temps, nhandle, calls, outcomes, reports, submitted>>

Dispatch(prov, p, its, net) == Enter(prov, p, its, net, content)

\* ------------------------------------------------------ remote_loader main
\* What the URL serves (lines 389-400) and what the local file holds (402-403).
ProbeAnswers == {"error", "html", "array", "object", "garbage"}

FileAnswers == {"unreadable", "array", "object", "garbage"}

\* Faulty variant of detect: the Drive pattern is tested before the OneDrive pattern.
detect_gdrive_first(c) ==
    IF ~c.http THEN "file"
    ELSE IF c.gdrive THEN "gdrive"
    ELSE IF c.onedrive THEN "onedrive"
    ELSE "probe"

\* Lines 371-387: the order in which the locator is tested.
detect(c) ==
    IF ~c.http THEN "file"
    ELSE IF c.onedrive THEN "onedrive"
    ELSE IF c.gdrive THEN "gdrive"
    ELSE "probe"

\* Faulty variant of is_array: the isinstance check is missing.
is_array_unchecked(kind) == TRUE

\* Line 405: isinstance(items, list).
is_array(kind) == kind = "array"

\* Faulty variant of has_token: the token is not looked at.
has_token_unchecked(c, kind) == TRUE

\* Lines 376 and 383: the token of the detected provider is there.
has_token(c, kind) == IF kind = "onedrive" THEN c.onedrive_token ELSE c.gdrive_token

\* Lines 405-408: the manifest is an array of n entries, or the run fails.
LoadManifest(kind, net) ==
    IF ~is_array(kind)
    THEN Leave("MalformedManifest", "none", net, kind)
    ELSE \E n \in 0..MaxUnits :
            Enter("ExplicitManifest", "manifest_loop",
                  [isList |-> kind = "array", n |-> n], net, kind)

\* remote_loader.py main, lines 359-406.
rl_main ==
    /\ pc = "main"
    /\ cfg.program = "remote_loader"
    /\ IF ~cfg.api_token
       THEN Exit("MissingCredential", "none", network)
       ELSE CASE detect(cfg) = "onedrive" ->
                    IF ~has_token(cfg, "onedrive")
                    THEN Exit("MissingCredential", "none", network)
                    ELSE Dispatch("OneDriveShare", "onedrive_list", NoItems, network)
              [] detect(cfg) = "gdrive" ->
                    IF ~has_token(cfg, "gdrive")
                    THEN Exit("MissingCredential", "none", network)
                    ELSE Dispatch("GoogleDriveFolder", "gdrive_list", NoItems, network)
              [] detect(cfg) = "probe" ->
                    \E a \in ProbeAnswers :
                        CASE a = "html" ->
                                Enter("HtmlIndex", "html_root", NoItems, TRUE, a)
                          [] a \in {"error", "garbage"} ->
                                Leave("crashed", "select", TRUE, a)
                          [] OTHER -> LoadManifest(a, TRUE)
              [] OTHER ->
                    \E a \in FileAnswers :
                        CASE a \in {"unreadable", "garbage"} ->
                                Leave("crashed", "select", network, a)
                          [] OTHER -> LoadManifest(a, network)

\* ------------------------------------------- remote_loader main, the manifest
\* Lines 408-413: the next entry of the array.
man_entry ==
    /\ pc = "manifest_loop"
    /\ i < items.n
    /\ \E inline, murl \in BOOLEAN :
          StartUnit("man_metadata", i + 1,
                    NewCur(i + 1, inline, murl, FALSE, FALSE, NoLink, NoLink))

man_done ==
    /\ pc = "manifest_loop"
    /\ i = items.n
    /\ Exit("done", "none", network)

\* Lines 415-424.
man_metadata ==
    /\ pc = "man_metadata"
    /\ IF cur.metadata THEN Goto("man_create", cur)
       ELSE IF cur.metadata_url
            THEN MetadataStage("man_create", "man_finally", HttpAnswers \cup PathAnswers)
            ELSE Goto("man_finally", [cur EXCEPT !.res = "MetadataUnavailable"])

\* Faulty variant of man_create: the entry goes on when create_dataset returned None.
man_create_unchecked == pc = "man_create" /\ CreateStage("man_clear", "man_clear")

\* Lines 427-430.
man_create == pc = "man_create" /\ CreateStage("man_clear", "man_finally")

\* Lines 433-436.
man_clear == pc = "man_clear" /\ ClearStage("man_upload")

\* Lines 439-446: the entry's file_url is read here.
man_upload ==
    /\ pc = "man_upload"
    /\ \E furl \in BOOLEAN :
          IF furl
          THEN UploadStage("man_finally", "man_finally", HttpAnswers \cup PathAnswers)
          ELSE NoFile("man_finally")

\* Lines 448-457.
man_finally ==
    /\ pc = "man_finally"
    /\ EndUnit("manifest_loop", cur.res, {cur.mtemp, cur.ftemp})

\* ------------------------------------------------ process_remote_folder_url
\* Lines 114-130: fetch the root page, deduplicate, choose the folders.
html_root ==
    /\ pc = "html_root"
    /\ \E ok \in BOOLEAN, page \in Listings :
          /\ ~ok => page = <<>>
          /\ IF ~ok
             THEN Exit("ListingFailed", "none", TRUE)
             ELSE /\ pc' = "html_loop"
                  /\ links' = dedupe(page)
                  /\ folders' = folder_links(dedupe(page))
                  /\ UNCHANGED <<cfg, pauses, json_links, tree, run, sources, content, status, abortAt, provider, network, items,
                                 entries, pairs, i, unit, cur, temps, nhandle,
                                 calls, outcomes, reports, submitted>>

\* Faulty variant of the guard at line 148: the root page treated as its own
\* folder always goes to stem matching.
stem_branch_always(metadata_url, folder) == folder = RootLink

\* Line 148: not metadata_url and folder == root_url.
stem_branch(metadata_url, folder) == metadata_url = NoLink /\ folder = RootLink

\* Lines 132-188: fetch the folder's page and pick its first .json and .zip.
html_folder ==
    /\ pc = "html_loop"
    /\ i < Len(folders)
    /\ LET folder == folders[i + 1] IN
       \E ok \in BOOLEAN,
          page \in Listings \cup (IF folder = RootLink THEN {links} ELSE {}) :
          LET metadata_url == First(WithExt(page, "json"))
              file_url == First(WithExt(page, "zip"))
              skipped == ~ok \/ (metadata_url = NoLink /\ ~stem_branch(metadata_url, folder))
              paired == ok /\ stem_branch(metadata_url, folder)
              kind == IF ok THEN "NoMetadata" ELSE "FolderUnreadable"
          IN
          /\ ~ok => page = <<>>
          /\ i' = i + 1
          /\ json_links' = IF ok THEN WithExt(page, "json") ELSE json_links
          /\ pc' = IF skipped THEN "html_loop"
                   ELSE IF paired THEN "html_pair" ELSE "html_metadata"
          /\ pairs' = IF paired THEN WithExt(links, "json") ELSE pairs
          /\ reports' = IF skipped THEN Append(reports, [unit |-> 0, kind |-> kind])
                        ELSE reports
          /\ unit' = IF skipped \/ paired THEN unit ELSE unit + 1
          /\ cur' = IF skipped \/ paired THEN cur
                    ELSE NewCur(i + 1, FALSE, TRUE, file_url # NoLink, FALSE,
                                metadata_url, file_url)
          /\ UNCHANGED <<cfg, pauses, tree, run, sources, content, status, abortAt,
                         provider, network, items, entries, links, folders,
                         temps, nhandle, calls, outcomes, submitted>>

html_done ==
    /\ pc = "html_loop"
    /\ i = Len(folders)
    /\ Exit("done", "none", network)

\* Lines 194-196.
html_metadata ==
    pc = "html_metadata" /\ MetadataStage("html_create", "html_finally", HttpAnswers)

\* Lines 198-201.
html_create == pc = "html_create" /\ CreateStage("html_clear", "html_finally")

\* Line 203.
html_clear == pc = "html_clear" /\ ClearStage("html_upload")

\* Lines 205-209.
html_upload ==
    /\ pc = "html_upload"
    /\ IF cur.file_url
       THEN UploadStage("html_finally", "html_finally", HttpAnswers)
       ELSE NoFile("html_finally")

\* Lines 211-219.
html_finally ==
    /\ pc = "html_finally"
    /\ EndUnit("html_loop", cur.res, {cur.mtemp, cur.ftemp})

\* Lines 152-160: the next root .json and the root .zip of the same stem.
pair_next ==
    /\ pc = "html_pair"
    /\ pairs # <<>>
    /\ LET j == Head(pairs)
           match == stem_match(j, links)
       IN
       /\ pc' = "pair_metadata"
       /\ pairs' = Tail(pairs)
       /\ unit' = unit + 1
       /\ cur' = NewCur(i, FALSE, TRUE, match # NoLink, FALSE, j, match)
       /\ UNCHANGED <<cfg, pauses, json_links, tree, run, sources, content, status, abortAt, provider, network, items, entries, links,
                      folders, i, temps, nhandle, calls, outcomes, reports,
                      submitted>>

\* Line 184: the pairs are done, on to the next folder.
pair_end ==
    /\ pc = "html_pair"
    /\ pairs = <<>>
    /\ SkipTo("html_loop", i)

\* Lines 163-165.
pair_metadata ==
    pc = "pair_metadata" /\ MetadataStage("pair_create", "pair_leave", HttpAnswers)

\* Lines 166-169.
pair_create == pc = "pair_create" /\ CreateStage("pair_clear", "pair_leave")

\* Line 170.
pair_clear == pc = "pair_clear" /\ ClearStage("pair_upload")

\* Lines 171-173.
pair_upload ==
    /\ pc = "pair_upload"
    /\ IF cur.file # NoLink
       THEN UploadStage("pair_remove", "pair_leave", HttpAnswers)
       ELSE NoFile("pair_remove")

\* Lines 174-181: both temporary files are removed on the straight path.
pair_remove ==
    /\ pc = "pair_remove"
    /\ EndUnit("html_pair", cur.res, {cur.ftemp, cur.mtemp})

\* Lines 167-169 (continue) and 182-183 (except): nothing is removed.
pair_leave ==
    /\ pc = "pair_leave"
    /\ EndUnit("html_pair", cur.res, {})

\* ---------------------------------------------- process_google_drive_folder
\* A child of a cloud folder, told by the end of its name.
JsonChild == Link("child", "json")

ZipChild == Link("child", "zip")

\* Lines 229-251: the folder id from the URL, then the children.
gdrive_list ==
    /\ pc = "gdrive_list"
    /\ \E hasId \in BOOLEAN, ok \in BOOLEAN, n \in 0..MaxUnits :
          /\ ~(hasId /\ ok) => n = 0
          /\ ~hasId => ok
          /\ IF ~hasId THEN Exit("BadLocator", "none", network)
             ELSE IF ~ok THEN Exit("crashed", "listing", TRUE)
             ELSE IF n = 0 THEN Exit("done", "none", TRUE)
             ELSE Dispatch(provider, "gd_loop", [isList |-> TRUE, n |-> n], TRUE)

\* Lines 253-257, 272: the next child, by the end of its name.
gd_child ==
    /\ pc = "gd_loop"
    /\ i < items.n
    /\ \E kind \in {"json", "zip", "other"} :
          CASE kind = "json" ->
                  StartUnit("gd_json_fetch", i + 1,
                            NewCur(i + 1, FALSE, TRUE, FALSE, FALSE, JsonChild, NoLink))
            [] kind = "zip" ->
                  StartUnit("gd_zip_fetch", i + 1,
                            NewCur(i + 1, TRUE, FALSE, TRUE, FALSE, NoLink, ZipChild))
            [] OTHER -> SkipTo("gd_loop", i + 1)

\* process_google_drive_folder, lines 258-261: a .json child.
gd_json_fetch ==
    pc = "gd_json_fetch" /\ MetadataStage("gd_json_create", "gd_json_raise", HttpAnswers)

\* The download (outside the try) or json.load raised: the finally removes
\* the temporary file if there is one and the exception leaves the function.
gd_json_raise ==
    /\ pc = "gd_json_raise"
    /\ Propagate({cur.mtemp})

\* Line 262.
gd_json_create ==
    pc = "gd_json_create" /\ CreateStage("gd_json_clear", "gd_json_finally")

\* Faulty variant of gd_json_clear: a dataset that gets no file is not cleared.
gd_json_clear_skipped == pc = "gd_json_clear" /\ Goto("gd_json_finally", cur)

\* Line 263-264.
gd_json_clear == pc = "gd_json_clear" /\ ClearStage("gd_json_finally")

\* Lines 265-271.
gd_json_finally ==
    /\ pc = "gd_json_finally"
    /\ EndUnit("gd_loop", IF cur.res = "Pending" THEN "NoFileProvided" ELSE cur.res,
               {cur.mtemp})

\* Line 273: a .zip child is downloaded first, outside any try.
gd_zip_fetch ==
    pc = "gd_zip_fetch" /\ FetchStage("gd_zip_create", "gd_zip_raise", HttpAnswers)

gd_zip_raise ==
    /\ pc = "gd_zip_raise"
    /\ Propagate({})

\* Faulty variant of gd_zip_create: the archive goes to the last dataset created.
gd_zip_create_reuse ==
    pc = "gd_zip_create" /\ Goto("gd_zip_upload", [cur EXCEPT !.pid = nhandle])

\* Lines 277-278: a dataset from a synthesized empty metadata document.
gd_zip_create ==
    pc = "gd_zip_create" /\ CreateStage("gd_zip_clear", "gd_zip_remove")

\* Line 279-280.
gd_zip_clear == pc = "gd_zip_clear" /\ ClearStage("gd_zip_upload")

\* Line 281.
gd_zip_upload == pc = "gd_zip_upload" /\ UploadOnly("gd_zip_remove", cur.ftemp)

\* Lines 282-287.
gd_zip_remove ==
    /\ pc = "gd_zip_remove"
    /\ EndUnit("gd_loop", cur.res, {cur.ftemp})

gd_done ==
    /\ pc = "gd_loop"
    /\ i = items.n
    /\ Exit("done", "none", network)

\* --------------------------------------------------- process_onedrive_share
\* Lines 297-308: the children of the shared item.
onedrive_list ==
    /\ pc = "onedrive_list"
    /\ \E a \in {"unauthorized", "error", "listed"}, n \in 0..MaxUnits :
          /\ a # "listed" => n = 0
          /\ CASE a = "unauthorized" -> Exit("Unauthorized", "none", TRUE)
               [] a = "error" -> Exit("crashed", "listing", TRUE)
               [] OTHER ->
                    IF n = 0 THEN Exit("done", "none", TRUE)
                    ELSE Dispatch(provider, "od_loop", [isList |-> TRUE, n |-> n], TRUE)

\* Lines 310-323, 336: the next child; one with no download URL and no id is skipped.
od_child ==
    /\ pc = "od_loop"
    /\ i < items.n
    /\ \E kind \in {"json", "zip", "other", "no_url"} :
          CASE kind = "json" ->
                  StartUnit("od_json_fetch", i + 1,
                            NewCur(i + 1, FALSE, TRUE, FALSE, FALSE, JsonChild, NoLink))
            [] kind = "zip" ->
                  StartUnit("od_zip_fetch", i + 1,
                            NewCur(i + 1, TRUE, FALSE, TRUE, FALSE, NoLink, ZipChild))
            [] OTHER -> SkipTo("od_loop", i + 1)

\* process_onedrive_share, lines 324-327: a .json child.
od_json_fetch ==
    pc = "od_json_fetch" /\ MetadataStage("od_json_create", "od_json_raise", HttpAnswers)

\* The download (outside the try) or json.load raised: the finally removes
\* the temporary file if there is one and the exception leaves the function.
od_json_raise ==
    /\ pc = "od_json_raise"
    /\ Propagate({cur.mtemp})

\* Line 328.
od_json_create ==
    pc = "od_json_create" /\ CreateStage("od_json_clear", "od_json_finally")

\* Line 329-330.
od_json_clear == pc = "od_json_clear" /\ ClearStage("od_json_finally")

\* Lines 331-335.
od_json_finally ==
    /\ pc = "od_json_finally"
    /\ EndUnit("od_loop", IF cur.res = "Pending" THEN "NoFileProvided" ELSE cur.res,
               {cur.mtemp})

\* Line 337: a .zip child is downloaded first, outside any try.
od_zip_fetch ==
    pc = "od_zip_fetch" /\ FetchStage("od_zip_create", "od_zip_raise", HttpAnswers)

od_zip_raise ==
    /\ pc = "od_zip_raise"
    /\ Propagate({})

\* Lines 339-340: a dataset from a synthesized empty metadata document.
od_zip_create ==
    pc = "od_zip_create" /\ CreateStage("od_zip_clear", "od_zip_remove")

\* Line 341-342.
od_zip_clear == pc = "od_zip_clear" /\ ClearStage("od_zip_upload")

\* Line 343.
od_zip_upload == pc = "od_zip_upload" /\ UploadOnly("od_zip_remove", cur.ftemp)

\* Lines 344-347.
od_zip_remove ==
    /\ pc = "od_zip_remove"
    /\ EndUnit("od_loop", cur.res, {cur.ftemp})

od_done ==
    /\ pc = "od_loop"
    /\ i = items.n
    /\ Exit("done", "none", network)

\* -------------------------------------------------- BulkLoad_Python main
\* Lines 204-229: the datasets folder and its entries, sorted.
bl_main ==
    /\ pc = "main"
    /\ cfg.program = "BulkLoad_Python"
    /\ \E exists \in BOOLEAN, raw \in iterdir(tree) :
          /\ tree # NoTree => exists
          /\ IF ~cfg.api_token THEN Exit("MissingCredential", "none", network)
             ELSE IF ~exists THEN Exit("NoDatasetsFolder", "none", network)
             ELSE /\ pc' = "bl_loop"
                  /\ provider' = "LocalDirectory"
                  /\ entries' = sorted(raw)
                  /\ UNCHANGED <<cfg, pauses, json_links, tree, run, sources, content, status, abortAt, network, items, links, folders,
                                 pairs, i, unit, cur, temps, nhandle, calls,
                                 outcomes, reports, submitted>>

\* Lines 229-231: the next entry; only directories are processed.
bl_entry ==
    /\ pc = "bl_loop"
    /\ i < Len(entries)
    /\ LET entry == tree[entries[i + 1]] IN
       IF entry.kind = "dir"
       THEN StartUnit("pdf_scan", i + 1,
                      NewCur(entries[i + 1], FALSE, entry.json, entry.zip, entry.marker,
                             NoLink, NoLink))
       ELSE SkipTo("bl_loop", i + 1)

bl_done ==
    /\ pc = "bl_loop"
    /\ i = Len(entries)
    /\ Exit("done", "none", network)

\* Faulty variant of pdf_scan: the .uploaded_* marker is not looked for.
pdf_scan_unmarked ==
    /\ pc = "pdf_scan"
    /\ IF ~cur.metadata_url THEN EndUnit("bl_loop", "MetadataUnavailable", {})
       ELSE \E loads \in BOOLEAN :
               IF loads THEN Goto("pdf_create", cur)
               ELSE EndUnit("bl_loop", "MetadataUnavailable", {})

\* process_dataset_folder, lines 148-173: marker, *.json, load_json_metadata.
pdf_scan ==
    /\ pc = "pdf_scan"
    /\ IF cur.marker THEN EndUnit("bl_loop", "Skipped", {})
       ELSE IF ~cur.metadata_url THEN EndUnit("bl_loop", "MetadataUnavailable", {})
       ELSE \E loads \in BOOLEAN :
               IF loads THEN Goto("pdf_create", cur)
               ELSE EndUnit("bl_loop", "MetadataUnavailable", {})

\* Faulty variant of pdf_create: the folder goes on when create_dataset returned None.
pdf_create_unchecked == pc = "pdf_create" /\ CreateStage("pdf_clear", "pdf_clear")

\* Lines 176-178.
pdf_create == pc = "pdf_create" /\ CreateStage("pdf_clear", "pdf_return")

\* Faulty variant of pdf_clear: the dataset cleared is the first one the run
\* created, not the one just created.
pdf_clear_first ==
    /\ pc = "pdf_clear"
    /\ \E ans \in ListAnswers :
          UnitStep("pdf_upload", cur, delete_all_files_in_dataset(calls, 1, ans),
                   temps, nhandle, reports, TRUE)

\* Lines 181-183.
pdf_clear == pc = "pdf_clear" /\ ClearStage("pdf_upload")

\* The first *.zip of the dataset folder named key.
zip_file(key) == 0 - (2 * MaxUnits) - key

\* Lines 186-190: the zip is uploaded from where it lies.
pdf_upload ==
    /\ pc = "pdf_upload"
    /\ IF cur.file_url THEN UploadOnly("pdf_return", zip_file(cur.key))
       ELSE NoFile("pdf_return")

\* Lines 178 and 193-196: back in main's loop; only the path on which the
\* dataset was created passes time.sleep(1) at line 193.
pdf_return ==
    /\ pc = "pdf_return"
    /\ EndUnitWith("bl_loop", cur.res, {}, cur.pid # 0)

\* Lines 233-234: the program is started again on the same datasets folder;
\* the repository and the folder are as the previous run left them.
bl_rerun ==
    /\ pc = "exit"
    /\ cfg.program = "BulkLoad_Python"
    /\ status = "done"
    /\ run < MaxRuns
    /\ pc' = "main"
    /\ status' = "running"
    /\ run' = run + 1
    /\ provider' = "none"
    /\ entries' = <<>>
    /\ i' = 0
    /\ UNCHANGED <<cfg, pauses, json_links, tree, sources, abortAt, network, content, items, links, folders,
                   pairs, unit, cur, temps, nhandle, calls, outcomes, reports,
                   submitted>>

InitRerun ==
    \E c \in Configs : c.program = "BulkLoad_Python" /\ InitWith(c, "main", NoDocument)

\* ------------------------------------------------ create_dataset in isolation
\* One call of create_dataset(metadata, alias) on any metadata document.
InitCreate ==
    \E doc \in Documents :
        InitWith([program |-> "BulkLoad_Python", api_token |-> TRUE,
                  onedrive_token |-> FALSE, gdrive_token |-> FALSE, http |-> FALSE,
                  onedrive |-> FALSE, gdrive |-> FALSE], "create_dataset", doc)

\* BulkLoad_Python.py 28-66: build the payload, submit it, read the answer.
create_dataset_call ==
    /\ pc = "create_dataset"
    /\ \E ans \in CreateAnswers :
          LET r == create_dataset(ans) IN
          /\ pc' = "exit"
          /\ status' = "done"
          /\ network' = TRUE
          /\ submitted' = [submitted EXCEPT !.payload = create_payload(submitted.doc)]
          /\ cur' = [cur EXCEPT !.pid = r.pid]
          /\ calls' = r.calls
          /\ nhandle' = r.nhandle
          /\ reports' = r.reports
          /\ UNCHANGED <<cfg, pauses, json_links, tree, run, sources, content, abortAt, provider, items, entries, links,
                         folders, pairs, i, unit, temps, outcomes>>

\* ------------------------------------------------------------ specifications
Select == rl_main \/ bl_main \/ gdrive_list \/ onedrive_list \/ html_root

Manifest == man_entry \/ man_done \/ man_metadata \/ man_create \/ man_clear
            \/ man_upload \/ man_finally

HtmlIndex == html_folder \/ html_done \/ html_metadata \/ html_create \/ html_clear
             \/ html_upload \/ html_finally \/ pair_next \/ pair_end \/ pair_metadata
             \/ pair_create \/ pair_clear \/ pair_upload \/ pair_remove \/ pair_leave

GoogleDrive == gd_child \/ gd_done \/ gd_json_fetch \/ gd_json_raise \/ gd_json_create
               \/ gd_json_clear \/ gd_json_finally \/ gd_zip_fetch \/ gd_zip_raise
               \/ gd_zip_create \/ gd_zip_clear \/ gd_zip_upload \/ gd_zip_remove

OneDrive == od_child \/ od_done \/ od_json_fetch \/ od_json_raise \/ od_json_create
            \/ od_json_clear \/ od_json_finally \/ od_zip_fetch \/ od_zip_raise
            \/ od_zip_create \/ od_zip_clear \/ od_zip_upload \/ od_zip_remove

LocalDirectory == bl_entry \/ bl_done \/ pdf_scan \/ pdf_create \/ pdf_clear
                  \/ pdf_upload \/ pdf_return

Next == Select \/ Manifest \/ HtmlIndex \/ GoogleDrive \/ OneDrive \/ LocalDirectory

Spec == Init /\ [][Next]_vars

SpecSelect == InitSelect /\ [][Select]_vars

SpecCreate == InitCreate /\ [][create_dataset_call]_vars

\* ------------------------------- delete_all_files_in_dataset in isolation
\* The dataset with persistent id 1 exists; its listing is any answer.
InitClear ==
    \E ans \in ListAnswersUpTo(MaxListed) :
        InitWith([program |-> "BulkLoad_Python", api_token |-> TRUE,
                  onedrive_token |-> FALSE, gdrive_token |-> FALSE, http |-> FALSE,
                  onedrive |-> FALSE, gdrive |-> FALSE], "delete_all_files", ans)

\* BulkLoad_Python.py 68-108, called as at line 181.
delete_all_files_call ==
    /\ pc = "delete_all_files"
    /\ pc' = "upload_zip_file"
    /\ network' = TRUE
    /\ calls' = delete_all_files_in_dataset(calls, 1, submitted.doc)
    /\ UNCHANGED <<cfg, pauses, json_links, tree, run, sources, status, abortAt, provider, content, items,
                   entries, links, folders, pairs, i, unit, cur, temps, nhandle,
                   outcomes, reports, submitted>>

\* BulkLoad_Python.py 185-190: the upload that follows, whatever the clearing did.
upload_zip_file_call ==
    /\ pc = "upload_zip_file"
    /\ \E up \in UploadAnswers :
          /\ pc' = "exit"
          /\ status' = "done"
          /\ calls' = upload_zip_file(calls, 1, zip_file(0), up).calls
          /\ UNCHANGED <<cfg, pauses, json_links, tree, run, sources, abortAt, provider, network, content,
                         items, entries, links, folders, pairs, i, unit, cur, temps,
                         nhandle, outcomes, reports, submitted>>

Clear == delete_all_files_call \/ upload_zip_file_call

SpecClear == InitClear /\ [][Clear]_vars

Rerun == bl_main \/ LocalDirectory \/ bl_rerun

SpecRerun == InitRerun /\ [][Rerun]_vars

\* ------------------------------------------------------------------ claims
CallsOf(u) == { k \in DOMAIN calls : calls[k].unit = u }

\* create_dataset was refused for unit u.
Rejected(u) ==
    \E k \in DOMAIN calls :
        calls[k].unit = u /\ calls[k].op = "create_dataset" /\ ~calls[k].ok

RejectionReports(u) ==
    { r \in DOMAIN reports : reports[r].unit = u /\ reports[r].kind = "CreateRejected" }

\* The length of the listing the provider iterates over.
ListingLen ==
    CASE provider = "LocalDirectory" -> Len(entries)
      [] provider = "HtmlIndex" -> Len(folders)
      [] OTHER -> items.n

\* C1: whenever the metadata document carries a "files" or "dataFiles" field,
\* at the top level or inside datasetVersion, with or without the
\* datasetVersion wrapper, the payload create_dataset submits carries none.
C1_FieldStripping ==
    (pc = "exit" /\ HasFileField(submitted.doc)) => ~HasFileField(submitted.payload)

\* C2: on the flat listing [a.json, a.zip, b.json, c.zip], when every fetch
\* and every repository call succeeds, each root .json yields exactly one
\* unit, and that unit's file is the root .zip of the same stem (none when no
\* stem matches).
C2_FlatPairing ==
    ( /\ provider = "HtmlIndex"
      /\ status = "done"
      /\ links = FlatBase
      /\ reports = <<>>
      /\ \A k \in DOMAIN outcomes : outcomes[k].res \in {"Uploaded", "NoFileProvided"} )
    => \A j \in Range(WithExt(links, "json")) :
          /\ Cardinality({ k \in DOMAIN outcomes : outcomes[k].meta = j }) = 1
          /\ \A k \in DOMAIN outcomes :
                outcomes[k].meta = j => outcomes[k].file = stem_match(j, links)

\* C3: whenever a unit's processing ends, on any path of any provider, the
\* temporary files the unit acquired no longer exist.
C3_TempsReleased ==
    [][ (cur # Idle /\ cur' = Idle)
            => ({cur.mtemp, cur.ftemp} \ {0}) \cap temps' = {} ]_vars

\* C4: a unit whose create_dataset is refused gets no other repository call
\* and exactly one CreateRejected report and ends as CreateRejected; the
\* refusal never ends the run, and a run that ends normally has visited every
\* element of the listing and finished every unit it started.
C4_Isolation ==
    /\ \A u \in 1..unit :
          IF Rejected(u)
          THEN /\ Cardinality(CallsOf(u)) = 1
               /\ Cardinality(RejectionReports(u)) = 1
          ELSE RejectionReports(u) = {}
    /\ \A k \in DOMAIN outcomes :
          Rejected(outcomes[k].unit) <=> outcomes[k].res = "CreateRejected"
    /\ abortAt = "unit" => ~Rejected(unit)
    /\ status = "done" =>
          /\ i = ListingLen
          /\ pairs = <<>>
          /\ Len(outcomes) = unit
          /\ \A k \in DOMAIN outcomes : outcomes[k].res # "Pending"

\* C4 witness: a finished run in which a refused unit is followed by a unit
\* that was created and uploaded.
C4_Witness ==
    /\ status = "done"
    /\ \E a, b \in DOMAIN outcomes :
          /\ a < b
          /\ outcomes[a].res = "CreateRejected"
          /\ outcomes[b].res = "Uploaded"

\* C5: no error raised while a unit is fetched or submitted leaves the unit's
\* processing: the run never dies inside a unit.
C5_NoPropagation == abortAt # "unit"

\* C6: repository calls are grouped by unit in discovery order: along the log
\* the unit never decreases, neither does the discovery key (folder name in
\* lexicographic order, array index), and handles never go back.
C6_DiscoveryOrder ==
    \A p \in DOMAIN calls :
        /\ p < Len(calls) =>
              /\ calls[p].unit <= calls[p + 1].unit
              /\ calls[p].key <= calls[p + 1].key
        /\ calls[p].h # 0 =>
              \A q \in (p + 1)..Len(calls) :
                  calls[q].h # 0 =>
                      /\ calls[p].h <= calls[q].h
                      /\ calls[p].h = calls[q].h => calls[p].unit = calls[q].unit

\* C6 witness: two dataset folders, both with repository calls.
C6_Witness ==
    /\ provider = "LocalDirectory"
    /\ \E p, q \in DOMAIN calls :
          /\ p < q
          /\ calls[p].key < calls[q].key
          /\ calls[p].h # 0
          /\ calls[q].h # 0

\* C7: a dataset folder that carries a marker gets no repository call, and
\* the run goes on to the next entry.
C7_MarkerSkip ==
    /\ cur.marker => (pc = "pdf_scan" /\ CallsOf(unit) = {})
    /\ \A k \in DOMAIN outcomes :
          outcomes[k].res = "Skipped" => CallsOf(outcomes[k].unit) = {}
    /\ provider = "LocalDirectory" =>
          /\ abortAt = "none"
          /\ status = "done" => i = Len(entries)

\* C7 witness: a marked folder was skipped and a later folder was processed.
C7_Witness ==
    \E k \in DOMAIN outcomes :
        /\ outcomes[k].res = "Skipped"
        /\ \E c \in DOMAIN calls : calls[c].unit > outcomes[k].unit

\* The locator is a OneDrive/SharePoint URL and the OneDrive token is missing.
LacksOneDriveToken == cfg.http /\ cfg.onedrive /\ ~cfg.onedrive_token

\* C8 as amended: a OneDrive/SharePoint URL without OneDrive token, or a
\* Drive URL that does not also match the OneDrive pattern without Drive
\* token, ends the run with MissingCredential and nothing was sent.
C8_MissingCredential ==
    ( /\ cfg.program = "remote_loader"
      /\ \/ LacksOneDriveToken
         \/ (cfg.http /\ cfg.gdrive /\ ~cfg.onedrive /\ ~cfg.gdrive_token) )
    => /\ ~network
       /\ calls = <<>>
       /\ provider = "none"
       /\ pc # "main" => (pc = "exit" /\ status = "MissingCredential")

\* C8 witness: a Drive URL, the repository token given, the Drive token not.
C8_Witness ==
    /\ cfg.api_token
    /\ cfg.http /\ cfg.gdrive /\ ~cfg.onedrive /\ ~cfg.gdrive_token
    /\ pc = "exit"
    /\ status = "MissingCredential"

\* C8 as stated: any URL matching the Drive pattern without Drive token
\* (also one that matches the OneDrive pattern too) ends with
\* MissingCredential before anything is sent.
C8_Original ==
    ( /\ cfg.program = "remote_loader"
      /\ \/ LacksOneDriveToken
         \/ (cfg.http /\ cfg.gdrive /\ ~cfg.gdrive_token) )
    => /\ ~network
       /\ calls = <<>>
       /\ provider = "none"
       /\ pc # "main" => (pc = "exit" /\ status = "MissingCredential")

\* The provider the amended rule selects for command line c whose root
\* locator holds `held`.
C9_Selected(c, held) ==
    IF c.program = "BulkLoad_Python" THEN "LocalDirectory"
    ELSE IF c.http /\ c.onedrive THEN "OneDriveShare"
    ELSE IF c.http /\ c.gdrive THEN "GoogleDriveFolder"
    ELSE IF c.http /\ held = "html" THEN "HtmlIndex"
    ELSE IF held = "array" THEN "ExplicitManifest"
    ELSE "none"

\* The provider the rule as stated selects.
C9_SelectedAsStated(c, held) ==
    IF c.program = "BulkLoad_Python" THEN "LocalDirectory"
    ELSE IF c.http /\ c.onedrive THEN "OneDriveShare"
    ELSE IF c.http /\ c.gdrive THEN "GoogleDriveFolder"
    ELSE IF c.http /\ held = "html" THEN "HtmlIndex"
    ELSE IF c.http /\ held = "array" THEN "ExplicitManifest"
    ELSE IF ~c.http THEN "LocalDirectory"
    ELSE "none"

Unconfigured == status \in {"MissingCredential", "NoDatasetsFolder"}

C10_MalformedManifest ==
    content = "object" =>
        /\ pc = "exit"
        /\ status = "MalformedManifest"
        /\ provider = "none"
        /\ unit = 0
        /\ calls = <<>>
        /\ temps = {}

\* C10 witness: the run ended with MalformedManifest on a non-array manifest.
C10_Witness == content = "object" /\ status = "MalformedManifest"

\* C11: a manifest element is submitted to the repository only when it carries
\* exactly one of "metadata" and "metadata_url"; an element with both or
\* with neither gets no repository call.
C11_ExactlyOneMetadata ==
    (provider = "ExplicitManifest" /\ cur # Idle /\ cur.metadata = cur.metadata_url)
        => CallsOf(unit) = {}

\* C12: when download_to_temp fails after it has created the temporary file,
\* that file is gone when the error reaches the caller: every temporary file
\* of the running unit that exists is one whose path the unit holds.
C12_AcquireReleases ==
    cur # Idle =>
        \A t \in temps \cap {MetaTemp(unit), FileTemp(unit)} : t \in {cur.mtemp, cur.ftemp}

\* The upload_file calls of unit u that the repository refused.
FailedUpload(k) == calls[k].op = "upload_file" /\ ~calls[k].ok

\* Unit u has an upload_file call that the repository refused.
UploadRefused(u) == \E k \in DOMAIN calls : calls[k].unit = u /\ FailedUpload(k)

\* C13: a unit whose upload_file is refused ends as UploadFailed, an outcome
\* of its own that no other unit gets; it keeps the handle of the dataset it
\* created, no further repository call is made for it, and the run goes on
\* to the end of the listing.
C13_UploadRejected ==
    /\ \A k \in DOMAIN calls :
          FailedUpload(k) =>
              /\ calls[k].h # 0
              /\ \A c \in (k + 1)..Len(calls) : calls[c].unit # calls[k].unit
              /\ (calls[k].unit = unit /\ cur # Idle) =>
                    (cur.res = "UploadFailed" /\ cur.pid = calls[k].h)
              /\ \A o \in DOMAIN outcomes :
                    outcomes[o].unit = calls[k].unit =>
                        (outcomes[o].res = "UploadFailed" /\ outcomes[o].pid = calls[k].h)
    /\ \A o \in DOMAIN outcomes :
          outcomes[o].res = "UploadFailed" => UploadRefused(outcomes[o].unit)
    /\ abortAt = "unit" => ~UploadRefused(unit)
    /\ (status = "done" /\ \E k \in DOMAIN calls : FailedUpload(k)) => i = ListingLen

\* C13 witness: a finished run in which a unit whose upload was refused kept
\* its handle and a later unit was created.
C13_Witness ==
    /\ status = "done"
    /\ \E a, b \in DOMAIN outcomes :
          /\ a < b
          /\ outcomes[a].res = "UploadFailed"
          /\ outcomes[a].pid # 0
          /\ outcomes[b].pid > outcomes[a].pid

\* C14: once a dataset folder's unit has completed successfully, a later run
\* over the same unchanged datasets folder makes no repository call for that
\* folder, so the repository keeps the datasets it had.
C14_RerunIdempotent ==
    \A a, b \in DOMAIN outcomes :
        ( /\ a < b
          /\ outcomes[a].key = outcomes[b].key
          /\ outcomes[a].res \in {"Uploaded", "NoFileProvided"} )
        => CallsOf(outcomes[b].unit) = {}

\* C15: a local file named by a locator is copied, never shared: the path the
\* unit parses and the path handed to upload_file are temporary files, not
\* the source, and no source file is ever removed, by a unit's cleanup or
\* otherwise.
C15_SeparateCopy ==
    /\ sources = SourcePaths
    /\ cur.msrc # 0 => (cur.mtemp \notin SourcePaths /\ cur.mtemp \in temps)
    /\ cur.fsrc # 0 => (cur.ftemp \notin SourcePaths /\ cur.ftemp \in temps)
    /\ provider # "LocalDirectory" =>
          \A k \in DOMAIN calls :
              calls[k].op = "upload_file" => calls[k].arg \notin SourcePaths

\* C15 witness: a manifest entry whose metadata and archive were both copied
\* from local files has uploaded the temporary copy and stands at its cleanup.
C15_Witness ==
    /\ pc = "man_finally"
    /\ cur.msrc # 0
    /\ cur.fsrc # 0
    /\ \E k \in CallsOf(unit) :
          calls[k].op = "upload_file" /\ calls[k].arg = cur.ftemp /\ calls[k].ok

\* C16: within a unit the repository calls are a prefix of create_dataset,
\* list_files, delete_file*, upload_file.  create_dataset is the first call
\* of its unit; list_files comes right after the unit's successful
\* create_dataset, with the handle it returned; delete_file only follows a
\* successful list_files or another delete_file of the unit; upload_file
\* follows the unit's list/delete step, with the handle the unit's
\* create_dataset returned; nothing of the unit follows upload_file.
C16_CallSequence ==
    \A k \in DOMAIN calls :
        CASE calls[k].op = "create_dataset" ->
                k > 1 => calls[k - 1].unit < calls[k].unit
          [] calls[k].op = "list_files" ->
                /\ k > 1
                /\ calls[k - 1].op = "create_dataset"
                /\ calls[k - 1].unit = calls[k].unit
                /\ calls[k - 1].ok
                /\ calls[k].h = calls[k - 1].h
          [] calls[k].op = "delete_file" ->
                /\ k > 1
                /\ calls[k - 1].unit = calls[k].unit
                /\ calls[k - 1].op \in {"list_files", "delete_file"}
                /\ calls[k - 1].op = "list_files" => calls[k - 1].ok
          [] OTHER ->
                /\ calls[k].op = "upload_file"
                /\ k > 1
                /\ calls[k - 1].unit = calls[k].unit
                /\ calls[k - 1].op \in {"list_files", "delete_file"}
                /\ \E j \in 1..(k - 1) :
                      /\ calls[j].op = "create_dataset"
                      /\ calls[j].unit = calls[k].unit
                      /\ calls[j].ok
                      /\ calls[j].h = calls[k].h

\* C16 witness: a unit that went through create_dataset, list_files,
\* delete_file and upload_file, followed by another unit's create_dataset.
C16_Witness ==
    \E k \in DOMAIN calls :
        /\ k + 4 \in DOMAIN calls
        /\ calls[k].op = "create_dataset"
        /\ calls[k + 1].op = "list_files"
        /\ calls[k + 2].op = "delete_file"
        /\ calls[k + 3].op = "upload_file"
        /\ calls[k + 4].op = "create_dataset"

IsDelete(c) == c.op = "delete_file"

\* The file ids delete_file was called with, in call order.
DeletedIds == LET D == SelectSeq(calls, IsDelete) IN [k \in DOMAIN D |-> D[k].arg]

\* How the delete_file calls were answered, in call order.
DeleteResults == LET D == SelectSeq(calls, IsDelete) IN [k \in DOMAIN D |-> D[k].ok]

\* The file ids of the descriptors in S of the listing, in list order.
IdsOf(ans, S) == Pick([k \in DOMAIN ans.has |-> FileId(1, k)], S)

C18_MetadataUnavailable ==
    /\ cur.res = "MetadataUnavailable" => (\A k \in DOMAIN calls : calls[k].unit # unit)
    /\ \A o \in DOMAIN outcomes :
          outcomes[o].res = "MetadataUnavailable" =>
              /\ \A k \in DOMAIN calls : calls[k].unit # outcomes[o].unit
              /\ o = Len(outcomes) => status \in {"running", "done"}

CloudRunAccepted ==
    /\ provider \in {"GoogleDriveFolder", "OneDriveShare"}
    /\ status = "done"
    /\ \A k \in DOMAIN calls : calls[k].ok

C21_PauseAfterUnit ==
    \A o \in DOMAIN outcomes :
        (outcomes[o].res # "Skipped" /\ outcomes[o].unit < unit)
            => outcomes[o].unit \in pauses

\* C22: on a root page with at least one directory-style link, the links are
\* deduplicated, each distinct directory link is one sub-listing, taken once
\* and in order, each sub-listing yields at most one unit, made of a .json
\* and at most a .zip found inside it and never by stem matching, a skipped
\* sub-listing gets no repository call, and the loop reaches the last one.
C22_DirectoryUnits ==
    (provider = "HtmlIndex" /\ dir_links(links) # <<>>)
    => /\ \A a, b \in DOMAIN links : links[a] = links[b] => a = b
       /\ folders = dir_links(links)
       /\ i <= Len(folders)
       /\ \A a, b \in DOMAIN outcomes :
              a < b => outcomes[a].key < outcomes[b].key
       /\ \A o \in DOMAIN outcomes :
              outcomes[o].meta.ext = "json" /\ outcomes[o].file.ext \in {"zip", ""}
       /\ pc # "pair_metadata"
       /\ pc \in {"html_metadata", "html_create", "html_clear", "html_upload",
                  "html_finally"} => cur.meta = First(json_links)
       /\ \A k \in DOMAIN calls :
              /\ calls[k].key <= i
              /\ \/ cur.key = calls[k].key
                 \/ \E o \in DOMAIN outcomes : outcomes[o].key = calls[k].key
       /\ status = "done" => i = Len(folders)

\* The control points of the stem-matching branch (lines 149-184).
StemPcs ==
    {"html_pair", "pair_metadata", "pair_create", "pair_clear", "pair_upload",
     "pair_remove", "pair_leave"}

\* The root page had no directory-style link and has been fetched again as
\* its own single folder.
FlatRefetched ==
    provider = "HtmlIndex" /\ dir_links(links) = <<>> /\ folders = <<RootLink>> /\ i = 1

\* C23: the stem-matching branch is entered only when the second fetch of the
\* root page shows no .json link; when that page shows one, the flat listing
\* gets at most one create_dataset call, made for the first .json of that
\* page, however many .json links the root has.
C23_StemBranchGuard ==
    FlatRefetched
    => /\ pc \in StemPcs => json_links = <<>>
       /\ json_links # <<>>
            => /\ \A a, b \in DOMAIN calls :
                     (calls[a].op = "create_dataset" /\ calls[b].op = "create_dataset")
                         => a = b
               /\ \A o \in DOMAIN outcomes : outcomes[o].meta = json_links[1]

\* A flat root with two .json links, fetched again with a .json on it, ends
\* with one dataset created.
C23_Witness ==
    /\ FlatRefetched
    /\ status = "done"
    /\ Len(WithExt(links, "json")) = 2
    /\ json_links # <<>>
    /\ Len(outcomes) = 1
    /\ outcomes[1].res = "Uploaded"
    /\ \E k \in DOMAIN calls : calls[k].op = "create_dataset" /\ calls[k].ok

\* list_files call k failed.
ListFailed(k) == calls[k].op = "list_files" /\ ~calls[k].ok

\* C24: when list_files fails for the handle a unit has just created, the
\* unit gets no delete_file call and goes on as after a listing that worked:
\* it keeps its handle, its next call, if any, is the upload to that handle,
\* and it ends with the result of its upload step (in the local program,
\* past the pause of line 193).
C24_ListFailureTolerated ==
    \A k \in DOMAIN calls :
        ListFailed(k)
        => /\ calls[k].h # 0
           /\ \A j \in DOMAIN calls :
                  calls[j].op = "delete_file" => calls[j].unit # calls[k].unit
           /\ (calls[k].unit = unit /\ cur # Idle) => cur.pid = calls[k].h
           /\ \A o \in DOMAIN outcomes :
                  outcomes[o].unit = calls[k].unit
                  => /\ outcomes[o].pid = calls[k].h
                     /\ outcomes[o].res \in {"Uploaded", "UploadFailed",
                                             "NoFileProvided", "FileUnavailable"}
                     /\ outcomes[o].res \in {"Uploaded", "UploadFailed"}
                           <=> /\ k + 1 \in DOMAIN calls
                               /\ calls[k + 1].op = "upload_file"
                               /\ calls[k + 1].unit = calls[k].unit
                               /\ calls[k + 1].h = calls[k].h
                     /\ provider = "LocalDirectory" => outcomes[o].unit \in pauses

\* A unit whose listing failed and whose file was then uploaded.
C24_Witness ==
    \E k \in DOMAIN calls, o \in DOMAIN outcomes :
        /\ ListFailed(k)
        /\ outcomes[o].unit = calls[k].unit
        /\ outcomes[o].res = "Uploaded"
        /\ k + 1 \in DOMAIN calls
        /\ calls[k + 1].op = "upload_file"
        /\ calls[k + 1].ok

\* C25: every delete_file call is for a file that the list_files call of the
\* same unit returned, and that list_files call was made for the handle the
\* unit's own create_dataset returned: the n-th delete after the listing is
\* for the n-th file listed for that handle, and for no other file.
C25_DeleteOnlyListed ==
    \A j \in DOMAIN calls :
        calls[j].op = "delete_file"
        => \E k \in 1..(j - 1) :
              /\ calls[k].op = "list_files"
              /\ calls[k].ok
              /\ calls[k].unit = calls[j].unit
              /\ \A n \in (k + 1)..(j - 1) : calls[n].op = "delete_file"
              /\ calls[j].arg = FileId(calls[k].h, j - k)
              /\ k > 1
              /\ calls[k - 1].op = "create_dataset"
              /\ calls[k - 1].ok
              /\ calls[k - 1].unit = calls[j].unit
              /\ calls[k - 1].h = calls[k].h

\* Two units of one run, each with a file of its own dataset deleted.
C25_Witness ==
    \E a, b \in DOMAIN calls :
        /\ calls[a].op = "delete_file"
        /\ calls[b].op = "delete_file"
        /\ calls[a].unit < calls[b].unit
        /\ calls[a].arg # calls[b].arg
        /\ provider = "LocalDirectory"
        /\ status = "done"

====
